---- MODULE Spec2Model ----
(***************************************************************************)
(* wallet-tracker: transaction normalisation (formatTransaction, in its    *)
(* two versions) and historical balance reconstruction                     *)
(* (calculateHistoricalBalances), as driven by GET /wallet/:address.       *)
(*                                                                         *)
(* Number encoding.  JavaScript numbers are modelled as integers:          *)
(*   - native amounts and balances in display units are fixed-point with   *)
(*     resolution 1e-7 SOL (1 SOL = 10,000,000), so 0.000001 = 10 and      *)
(*     0.00001 = 100; raw native amounts and fees are lamports and the     *)
(*     inputs are multiples of 100 lamports, so "/ 1e9" is exact;          *)
(*   - USD valuations are in 0.001 USD, so 0.01 = 10;                      *)
(*   - times are seconds (timestamps) and milliseconds (dates) counted     *)
(*     from an epoch NowSec seconds before the request.                    *)
(* Null stands for null/undefined, NaN for the result of parseFloat on a   *)
(* missing field.                                                          *)
(***************************************************************************)
EXTENDS Integers, Sequences, FiniteSets, TLC

\* ---------------------------------------------------------------- bounds
MaxEvents == 2
MaxLegs == 2
NowSec == 1000000

\* ------------------------------------------------------ program constants
NaN == -2000000000
Null == -1000000000
MeaningfulChange == 10
NativeDust == 100
UsdDust == 10
SmallAmount == 10000
DayMs == 86400000
WSOL == "So11111111111111111111111111111111111111112"
USDC == "EPjFWdd5AufqSSqeM2qN1xzybapC8G4wEGGkZwyTDt1v"

\* ------------------------------------------------------------- addresses
Wallet == "WaLLobserved1111"
Other == "0therAccount2222"
Third == "ThrdAccount3333"
NoAddr == "null"

\* fromAddr.slice(0, 4) + '...' + fromAddr.slice(-4)
ShortAddr(a) ==
  CASE a = Wallet -> "WaLL...1111"
    [] a = Other -> "0the...2222"
    [] a = Third -> "Thrd...3333"
    [] OTHER -> "...."

\* mint.slice(0, 4) + '...'
MintPrefix(m) ==
  CASE m = WSOL -> "So11..."
    [] m = USDC -> "EPjF..."
    [] OTHER -> "..."

\* --------------------------------------------------------- JS arithmetic
IsNum(x) == x # NaN /\ x # Null
\* JavaScript truthiness of a number-or-missing value: 0, NaN, null and
\* undefined are falsy.
Truthy(x) == IsNum(x) /\ x # 0
ParseFloat(x) == IF x = Null \/ x = NaN THEN NaN ELSE x
\* parseFloat(lamports) / 1e9, in display units of 1e-7 SOL
Div1e9(x) == IF x = NaN THEN NaN ELSE x \div 100
Plus(a, b) == IF a = NaN \/ b = NaN THEN NaN ELSE a + b
Minus(a, b) == IF a = NaN \/ b = NaN THEN NaN ELSE a - b
Lt(a, b) == a # NaN /\ b # NaN /\ a < b

\* mutant: a comparison with NaN succeeds
GeNaNPasses(a, b) == a = NaN \/ (b # NaN /\ a >= b)

Ge(a, b) == a # NaN /\ b # NaN /\ a >= b

Abs(a) == IF a = NaN THEN NaN ELSE IF a < 0 THEN -a ELSE a

\* ------------------------------------------------------------ raw events
\* An optional sub-record is a sequence of length 0 or 1.
NoSwap == <<>>
NoNft == <<>>

NativeLeg(amt, from, to) ==
  [amount |-> amt, fromUserAccount |-> from, toUserAccount |-> to]

TokenLeg(mint, amt, from, to, sym, usd) ==
  [mint |-> mint, tokenAmount |-> amt, fromUserAccount |-> from,
   toUserAccount |-> to, symbol |-> sym, valueUsd |-> usd]

SwapNative(amt, usd) == [amount |-> amt, usdValue |-> usd]
SwapToken(mint, amt, sym, usd) ==
  [mint |-> mint, amount |-> amt, symbol |-> sym, usdValue |-> usd]

SwapRec(nin, nout, tin, tout) ==
  <<[nativeInput |-> nin, nativeOutput |-> nout,
     tokenInputs |-> tin, tokenOutputs |-> tout, source |-> "JUPITER"]>>

NftRec(seller, buyer, amt) ==
  <<[seller |-> seller, buyer |-> buyer, amount |-> amt]>>

RawTx(ts, type, fee, payer, swap, nft, native, token) ==
  [timestamp |-> ts, type |-> type, fee |-> fee, feePayer |-> payer,
   swap |-> swap, nft |-> nft,
   nativeTransfers |-> native, tokenTransfers |-> token]

\* Sequences over S of length lo..hi
SeqsUpTo(S, hi) == UNION {[1..n -> S] : n \in 0..hi}

Directions == {<<Wallet, Other>>, <<Other, Wallet>>, <<Other, Third>>}

\* --- the inputs of the formatter specification
FmtNativeLeg0 ==
  {NativeLeg(a, d[1], d[2]) : a \in {5000, 10000, 20000, 2000000000}, d \in Directions}
FmtNativeTail ==
  {NativeLeg(5000, Wallet, Other), NativeLeg(2000000000, Other, Wallet)}
FmtNativeLists ==
  {<<>>} \cup {<<l>> \o t : l \in FmtNativeLeg0, t \in SeqsUpTo(FmtNativeTail, MaxLegs - 1)}

FmtTokenLeg0 ==
  {TokenLeg(m, 20000000, Wallet, Other, "", u) : m \in {WSOL, USDC}, u \in {Null, 0, 5, 10, 20}}
  \cup {TokenLeg(USDC, 5000, Other, Wallet, "USDC", u) : u \in {Null, 0, 5, 10, 20}}
FmtTokenTail == {TokenLeg(USDC, 20000000, Other, Wallet, "USDC", 20)}
FmtTokenLists ==
  {<<>>} \cup {<<l>> \o t : l \in FmtTokenLeg0, t \in SeqsUpTo(FmtTokenTail, MaxLegs - 1)}

FmtSwaps ==
  {NoSwap,
   SwapRec(<<SwapNative(2000000000, 300000)>>, <<>>, <<>>,
           <<SwapToken(USDC, 1500000000, "USDC", 299000)>>),
   SwapRec(<<>>, <<SwapNative(20000, Null)>>,
           <<SwapToken(USDC, 30000, "", 0)>>, <<>>),
   SwapRec(<<>>, <<>>, <<SwapToken(USDC, 5000, "", 5)>>,
           <<SwapToken(WSOL, 4000, "", 4)>>),
   SwapRec(<<SwapNative(2000000000, 0)>>, <<>>, <<>>,
           <<SwapToken(USDC, 1500000000, "USDC", 150000)>>)}

FmtNfts == {NoNft, NftRec(Wallet, Other, 1000000000), NftRec(Other, Wallet, Null)}

FmtEvents ==
  {RawTx(NowSec - 3600, ty[1], ty[2], Wallet, s, n, nl, tl) :
     ty \in {<<"", 0>>, <<"TRANSFER", 5000>>},
     s \in FmtSwaps, n \in FmtNfts, nl \in FmtNativeLists, tl \in FmtTokenLists}

\* ------------------------------------------------- canonical transaction
\* The result of a formatter is a sequence of length 0 (null) or 1.
Absent == <<>>

EmptyDesc == [verb |-> "", a1 |-> <<>>, t1 |-> "", a2 |-> <<>>, t2 |-> "", usd |-> <<>>]

\* amount < 0.001 ? amount.toExponential(e) : amount.toFixed(f); toFixed(f)
\* rounds to f decimals (f <= 7), toExponential keeps the digits shown here.
FormatAmount(a, e, f) ==
  IF Lt(a, SmallAmount) THEN <<"exp", e, a>>
  ELSE IF a = NaN THEN <<"fixed", f, NaN>>
  ELSE LET q == IF f = 3 THEN 10000 ELSE IF f = 4 THEN 1000 ELSE 10
       IN <<"fixed", f, (a + (q \div 2)) \div q>>

\* mutant: the event's own type is ignored
BaseFormattedUnknown(tx) ==
  [signature |-> tx.signature,
   type |-> "UNKNOWN",
   description |-> EmptyDesc,
   fee |-> IF Truthy(tx.fee) THEN Div1e9(ParseFloat(tx.fee)) ELSE Null,
   block_time |-> tx.timestamp,
   from |-> NoAddr, to |-> NoAddr, amount |-> Null,
   direction |-> "unknown", value_change_usd |-> Null,
   token_symbol |-> "", mint |-> "", input |-> <<>>, output |-> <<>>]

\* the fields shared by every record formatTransaction builds
BaseFormatted(tx) ==
  [signature |-> tx.signature,
   type |-> IF tx.type # "" THEN tx.type ELSE "UNKNOWN",
   description |-> EmptyDesc,
   fee |-> IF Truthy(tx.fee) THEN Div1e9(ParseFloat(tx.fee)) ELSE Null,
   block_time |-> tx.timestamp,
   from |-> NoAddr, to |-> NoAddr, amount |-> Null,
   direction |-> "unknown", value_change_usd |-> Null,
   token_symbol |-> "", mint |-> "", input |-> <<>>, output |-> <<>>]

\* ---------------------------------------------- symbol lookup (helius.js)
LookupOutcomes == {"found", "none", "error"}

\* what DexScreener reports as pairs[0].baseToken.symbol
DexSymbol(mint) == IF mint = WSOL THEN "SOL" ELSE IF mint = USDC THEN "USDC" ELSE ""

\* getTokenInfo: the symbol of the most liquid pair, or null (modelled as "")
\* when there is no pair or the request fails.
GetTokenInfo(mint, outcome) == IF outcome = "found" THEN DexSymbol(mint) ELSE ""

\* mutant: no fallback when the lookup yields nothing
GetTokenSymbolNoFallback(mint, outcome) == GetTokenInfo(mint, outcome)

\* getTokenSymbol: tokenInfo?.symbol || mint.slice(0, 4) + '...'
GetTokenSymbol(mint, outcome) ==
  LET sym == GetTokenInfo(mint, outcome)
  IN IF sym # "" THEN sym ELSE MintPrefix(mint)

\* ------------------------------ HeliusService.formatTransaction (helius.js)
UnknownLeg == [amount |-> 0, token |-> "Unknown", value_usd |-> Null]

\* one side of a swap: native leg, else first token leg, else the default
HeliusSwapLeg(native, tokens, outcome) ==
  IF Len(native) > 0 THEN
    [amount |-> Div1e9(ParseFloat(native[1].amount)), token |-> "SOL",
     value_usd |-> ParseFloat(native[1].usdValue)]
  ELSE IF Len(tokens) > 0 THEN
    [amount |-> ParseFloat(tokens[1].amount),
     token |-> IF tokens[1].symbol # "" THEN tokens[1].symbol
               ELSE GetTokenSymbol(tokens[1].mint, outcome),
     value_usd |-> ParseFloat(tokens[1].usdValue)]
  ELSE UnknownLeg

HeliusSwapUsdKnown(swapIn, swapOut) == Truthy(swapIn.value_usd) /\ Truthy(swapOut.value_usd)

HeliusFormatSwap(formatted, swap, o1, o2) ==
  LET swapIn == HeliusSwapLeg(swap.nativeInput, swap.tokenInputs, o1)
      swapOut == HeliusSwapLeg(swap.nativeOutput, swap.tokenOutputs, o2)
      known == HeliusSwapUsdKnown(swapIn, swapOut)
  IN <<[formatted EXCEPT
         !.description = [verb |-> "Swapped",
                          a1 |-> FormatAmount(swapIn.amount, 2, 3), t1 |-> swapIn.token,
                          a2 |-> FormatAmount(swapOut.amount, 2, 3), t2 |-> swapOut.token,
                          usd |-> IF known THEN <<swapIn.value_usd, swapOut.value_usd>> ELSE <<>>],
         !.value_change_usd = IF known THEN swapOut.value_usd - swapIn.value_usd ELSE Null,
         !.type = "SWAP", !.direction = "swap",
         !.input = <<swapIn>>, !.output = <<swapOut>>]>>

\* const valueUsd = transfer.valueUsd ? parseFloat(transfer.valueUsd) : null
TokenValueUsd(transfer) ==
  IF Truthy(transfer.valueUsd) THEN ParseFloat(transfer.valueUsd) ELSE Null

\* if (valueUsd !== null && valueUsd < 0.01) return null
TokenIsDust(valueUsd) == valueUsd # Null /\ Lt(valueUsd, UsdDust)

\* the direction, description and addresses of a transfer leg
TransferFields(formatted, w, fromAddr, toAddr, amount, symbol, valueUsd) ==
  LET amt == FormatAmount(amount, 3, 6)
      usd == IF Truthy(valueUsd) THEN <<valueUsd>> ELSE <<>>
      dirn == IF fromAddr = w THEN "out" ELSE IF toAddr = w THEN "in" ELSE "unknown"
      desc == IF fromAddr = w
                THEN [verb |-> "Sent", a1 |-> amt, t1 |-> symbol, a2 |-> <<>>,
                      t2 |-> ShortAddr(toAddr), usd |-> usd]
              ELSE IF toAddr = w
                THEN [verb |-> "Received", a1 |-> amt, t1 |-> symbol, a2 |-> <<>>,
                      t2 |-> ShortAddr(fromAddr), usd |-> usd]
              ELSE EmptyDesc
      vcu == IF ~Truthy(valueUsd) THEN Null
             ELSE IF fromAddr = w THEN -valueUsd
             ELSE IF toAddr = w THEN valueUsd ELSE Null
  IN [formatted EXCEPT !.direction = dirn, !.description = desc,
                       !.value_change_usd = vcu,
                       !.from = fromAddr, !.to = toAddr, !.amount = amount,
                       !.token_symbol = symbol]

HeliusFormatToken(formatted, w, transfer, o1) ==
  LET amount == ParseFloat(transfer.tokenAmount)
      symbol == IF transfer.symbol # "" THEN transfer.symbol
                ELSE GetTokenSymbol(transfer.mint, o1)
      valueUsd == TokenValueUsd(transfer)
  IN IF TokenIsDust(valueUsd) THEN Absent
     ELSE <<[TransferFields(formatted, w, transfer.fromUserAccount,
                            transfer.toUserAccount, amount, symbol, valueUsd)
              EXCEPT !.type = "TOKEN_TRANSFER", !.mint = transfer.mint]>>

\* mutant: the boundary amount 0.00001 is suppressed too
NativeIsDustInclusive(amount) == Lt(amount, NativeDust + 1)

\* if (amount < 0.00001) return null
NativeIsDust(amount) == Lt(amount, NativeDust)

\* mutant: the last leg is normalized
LastLeg(legs) == legs[Len(legs)]

\* const transfer = tx.nativeTransfers[0]
FirstLeg(legs) == legs[1]

HeliusFormatNative(formatted, w, transfer) ==
  LET amount == Div1e9(ParseFloat(transfer.amount))
  IN IF NativeIsDust(amount) THEN Absent
     ELSE <<[TransferFields(formatted, w, transfer.fromUserAccount,
                            transfer.toUserAccount, amount, "SOL", Null)
              EXCEPT !.type = "SOL_TRANSFER"]>>

\* mutant: native transfers tried before the swap
HeliusCategoryNativeFirst(tx) ==
  IF Len(tx.swap) = 0 /\ Len(tx.tokenTransfers) = 0 /\ Len(tx.nativeTransfers) = 0
    THEN "skip"
  ELSE IF Len(tx.nativeTransfers) > 0 THEN "native"
  ELSE IF Len(tx.swap) > 0 THEN "swap"
  ELSE IF Len(tx.tokenTransfers) > 0 THEN "token"
  ELSE "none"

\* the order in which the payload shapes are tried
HeliusCategory(tx) ==
  IF Len(tx.swap) = 0 /\ Len(tx.tokenTransfers) = 0 /\ Len(tx.nativeTransfers) = 0
    THEN "skip"
  ELSE IF Len(tx.swap) > 0 THEN "swap"
  ELSE IF Len(tx.tokenTransfers) > 0 THEN "token"
  ELSE IF Len(tx.nativeTransfers) > 0 THEN "native"
  ELSE "none"

HeliusFormatTransaction(tx, w, o1, o2) ==
  LET cat == HeliusCategory(tx)
      formatted == BaseFormatted(tx)
  IN CASE cat = "swap" -> HeliusFormatSwap(formatted, tx.swap[1], o1, o2)
       [] cat = "token" -> HeliusFormatToken(formatted, w, tx.tokenTransfers[1], o1)
       [] cat = "native" -> HeliusFormatNative(formatted, w, FirstLeg(tx.nativeTransfers))
       [] OTHER -> Absent

\* the outcomes of the getTokenSymbol calls formatTransaction awaits: one per
\* token leg of a swap side that has no native leg and no symbol of its own,
\* one for the first token transfer without a symbol
SwapLegLookup(native, tokens, outcome) ==
  IF Len(native) = 0 /\ Len(tokens) > 0 /\ tokens[1].symbol = ""
    THEN <<outcome>> ELSE <<>>

HeliusLookups(tx, o1, o2) ==
  LET cat == HeliusCategory(tx)
  IN CASE cat = "swap" ->
            SwapLegLookup(tx.swap[1].nativeInput, tx.swap[1].tokenInputs, o1)
            \o SwapLegLookup(tx.swap[1].nativeOutput, tx.swap[1].tokenOutputs, o2)
       [] cat = "token" ->
            IF tx.tokenTransfers[1].symbol = "" THEN <<o1>> ELSE <<>>
       [] OTHER -> <<>>

\* ------------------------- formatTransaction (utils/transactionFormatter.js)
UtilSwapLeg(native, tokens) ==
  IF Len(native) > 0 THEN
    [amount |-> Div1e9(ParseFloat(native[1].amount)), token |-> "SOL",
     value_usd |-> IF Truthy(native[1].usdValue) THEN native[1].usdValue ELSE 0]
  ELSE IF Len(tokens) > 0 THEN
    [amount |-> IF Truthy(tokens[1].amount) THEN tokens[1].amount ELSE 0,
     token |-> IF tokens[1].symbol # "" THEN tokens[1].symbol ELSE "Unknown",
     value_usd |-> IF Truthy(tokens[1].usdValue) THEN tokens[1].usdValue ELSE 0]
  ELSE UnknownLeg

UtilFormatNft(formatted, w, nft) ==
  <<[formatted EXCEPT
      !.type = "NFT_TRANSACTION",
      !.description = [EmptyDesc EXCEPT !.verb = "NFT Transaction"],
      !.amount = IF Truthy(nft.amount) THEN Div1e9(ParseFloat(nft.amount)) ELSE Null,
      !.from = nft.seller, !.to = nft.buyer,
      !.direction = IF nft.seller = w THEN "out"
                    ELSE IF nft.buyer = w THEN "in" ELSE "unknown"]>>

UtilFormatSwap(formatted, swap) ==
  LET swapIn == UtilSwapLeg(swap.nativeInput, swap.tokenInputs)
      swapOut == UtilSwapLeg(swap.nativeOutput, swap.tokenOutputs)
      known == Truthy(swapIn.value_usd) /\ Truthy(swapOut.value_usd)
  IN <<[formatted EXCEPT
         !.type = "SWAP", !.direction = "swap",
         !.description = [verb |-> "Swap",
                          a1 |-> <<"fixed", 4, swapIn.amount>>, t1 |-> swapIn.token,
                          a2 |-> <<"fixed", 4, swapOut.amount>>, t2 |-> swapOut.token,
                          usd |-> IF known THEN <<swapIn.value_usd, swapOut.value_usd>> ELSE <<>>],
         !.input = <<swapIn>>, !.output = <<swapOut>>]>>

UtilFormatTransfer(formatted, w, fromAddr, toAddr, amount, symbol, type) ==
  LET dirn == IF fromAddr = w THEN "out" ELSE IF toAddr = w THEN "in" ELSE "unknown"
      verb == IF fromAddr = w THEN "Sent" ELSE IF toAddr = w THEN "Received" ELSE "Transferred"
  IN <<[formatted EXCEPT
         !.type = type, !.from = fromAddr, !.to = toAddr, !.amount = amount,
         !.direction = dirn, !.token_symbol = symbol,
         !.description = [EmptyDesc EXCEPT !.verb = verb, !.a1 = <<"amount", 4, amount>>,
                                           !.t1 = symbol]]>>

\* the order in which the payload shapes are tried
UtilCategory(tx) ==
  IF Len(tx.nft) > 0 THEN "nft"
  ELSE IF Len(tx.swap) > 0 THEN "swap"
  ELSE IF Len(tx.nativeTransfers) > 0 THEN "native"
  ELSE IF Len(tx.tokenTransfers) > 0 THEN "token"
  ELSE "none"

UtilFormatTransaction(tx, w) ==
  LET cat == UtilCategory(tx)
      formatted == BaseFormatted(tx)
  IN CASE cat = "nft" -> UtilFormatNft(formatted, w, tx.nft[1])
       [] cat = "swap" -> UtilFormatSwap(formatted, tx.swap[1])
       [] cat = "native" ->
            LET t == FirstLeg(tx.nativeTransfers)
            IN UtilFormatTransfer(formatted, w, t.fromUserAccount, t.toUserAccount,
                                  Div1e9(ParseFloat(t.amount)), "SOL", "TRANSFER")
       [] cat = "token" ->
            LET t == tx.tokenTransfers[1]
            IN [UtilFormatTransfer(formatted, w, t.fromUserAccount, t.toUserAccount,
                                   ParseFloat(t.tokenAmount),
                                   IF t.symbol # "" THEN t.symbol ELSE "Unknown",
                                   "TOKEN_TRANSFER")
                 EXCEPT ![1].mint = t.mint]
       [] OTHER -> <<formatted>>

\* --------------------------------- calculateHistoricalBalances (helius.js)
\* the native legs of a swap: + input amount, - output amount
SwapDelta(tx) ==
  IF Len(tx.swap) = 0 THEN 0
  ELSE LET swap == tx.swap[1]
           inp == IF Len(swap.nativeInput) > 0
                    THEN Div1e9(ParseFloat(swap.nativeInput[1].amount)) ELSE 0
           out == IF Len(swap.nativeOutput) > 0
                    THEN Div1e9(ParseFloat(swap.nativeOutput[1].amount)) ELSE 0
       IN Minus(Plus(0, inp), out)

\* mutant: the forward sign (- sent, + received)
LegDeltaForward(from, to, amount, w) ==
  LET sent == IF from = w THEN amount ELSE 0
      recv == IF to = w THEN amount ELSE 0
  IN Minus(Plus(0, recv), sent)

\* one transfer leg: + amount if the wallet sent it, - amount if it received it
LegDelta(from, to, amount, w) ==
  LET sent == IF from = w THEN amount ELSE 0
      recv == IF to = w THEN amount ELSE 0
  IN Minus(Plus(0, sent), recv)

RECURSIVE NativeDelta(_, _)
NativeDelta(legs, w) ==
  IF Len(legs) = 0 THEN 0
  ELSE Plus(LegDelta(legs[1].fromUserAccount, legs[1].toUserAccount,
                     Div1e9(ParseFloat(legs[1].amount)), w),
            NativeDelta(Tail(legs), w))

\* only wrapped-SOL token legs count
RECURSIVE TokenDelta(_, _)
TokenDelta(legs, w) ==
  IF Len(legs) = 0 THEN 0
  ELSE Plus(IF legs[1].mint = WSOL
              THEN LegDelta(legs[1].fromUserAccount, legs[1].toUserAccount,
                            ParseFloat(legs[1].tokenAmount), w)
              ELSE 0,
            TokenDelta(Tail(legs), w))

\* mutant: the fee is added whoever paid it
FeeDeltaAnyPayer(tx, w) ==
  IF Truthy(tx.fee) THEN Div1e9(ParseFloat(tx.fee)) ELSE 0

\* if (tx.fee && tx.feePayer === walletAddress) valueChangeSOL += fee / 1e9
FeeDelta(tx, w) ==
  IF Truthy(tx.fee) /\ tx.feePayer = w THEN Div1e9(ParseFloat(tx.fee)) ELSE 0

ValueChangeSOL(tx, w) ==
  Plus(Plus(Plus(SwapDelta(tx), NativeDelta(tx.nativeTransfers, w)),
            TokenDelta(tx.tokenTransfers, w)),
       FeeDelta(tx, w))

\* mutant: the walk reuses the normalizer's native dust threshold
IsMeaningfulNativeDust(d) == Ge(Abs(d), NativeDust)

\* if (Math.abs(valueChangeSOL) >= 0.000001)
IsMeaningful(d) == Ge(Abs(d), MeaningfulChange)

\* mutant: no adjustment
ClampBalanceNone(b) == b

\* runningBalance + valueChangeSOL, adjusted to 0 when negative
ClampBalance(b) == IF b < 0 THEN 0 ELSE b

SeedPoint(date, balance) ==
  [date |-> date, solValue |-> balance, valueChange |-> 0,
   hasTransaction |-> FALSE, type |-> "", description |-> ""]

TxPoint(tx, balance, d) ==
  [date |-> tx.timestamp * 1000, solValue |-> balance, valueChange |-> d,
   hasTransaction |-> TRUE, type |-> tx.type, description |-> "Transaction"]

\* Array.prototype.sort is stable: an element is inserted before the first
\* element the comparator puts strictly after it.

\* transactions.sort((a, b) => b.timestamp - a.timestamp)
NewerFirst(a, b) == a.timestamp > b.timestamp

RECURSIVE InsertTx(_, _)
InsertTx(x, s) ==
  IF Len(s) = 0 THEN <<x>>
  ELSE IF NewerFirst(x, s[1]) THEN <<x>> \o s
  ELSE <<s[1]>> \o InsertTx(x, Tail(s))

RECURSIVE SortTransactions(_)
SortTransactions(txs) ==
  IF Len(txs) = 0 THEN <<>>
  ELSE InsertTx(txs[Len(txs)], SortTransactions(SubSeq(txs, 1, Len(txs) - 1)))

\* mutant: (a, b) => b.date - a.date
OlderFirstReversed(a, b) == a.date > b.date

\* balancePoints.sort((a, b) => a.date - b.date)
OlderFirst(a, b) == a.date < b.date

RECURSIVE InsertPoint(_, _)
InsertPoint(x, s) ==
  IF Len(s) = 0 THEN <<x>>
  ELSE IF OlderFirst(x, s[1]) THEN <<x>> \o s
  ELSE <<s[1]>> \o InsertPoint(x, Tail(s))

RECURSIVE SortPoints(_)
SortPoints(points) ==
  IF Len(points) = 0 THEN <<>>
  ELSE InsertPoint(points[Len(points)], SortPoints(SubSeq(points, 1, Len(points) - 1)))

\* --- the inputs of the pipeline specification
Send(amt, to) == <<NativeLeg(amt, Wallet, to)>>
Recv(amt, from) == <<NativeLeg(amt, from, Wallet)>>

WalkPayloads ==
  { \* the wallet sends 2 SOL and pays the fee
    RawTx(0, "TRANSFER", 5000, Wallet, NoSwap, NoNft, Send(2000000000, Other), <<>>),
    \* the wallet receives 2 SOL, the sender pays the fee
    RawTx(0, "TRANSFER", 5000, Other, NoSwap, NoNft, Recv(2000000000, Other), <<>>),
    \* 0.000005 SOL sent or received, fee paid by the other side
    RawTx(0, "TRANSFER", 5000, Other, NoSwap, NoNft, Send(5000, Other), <<>>),
    RawTx(0, "TRANSFER", 5000, Other, NoSwap, NoNft, Recv(5000, Other), <<>>),
    \* 0.0000005 SOL sent, no fee
    RawTx(0, "TRANSFER", 0, Wallet, NoSwap, NoNft, Send(500, Other), <<>>),
    \* swap of 1 SOL for USDC, with the native leg that funds it
    RawTx(0, "SWAP", 5000, Wallet,
          SwapRec(<<SwapNative(1000000000, 150000)>>, <<>>, <<>>,
                  <<SwapToken(USDC, 1500000000, "USDC", 149000)>>),
          NoNft, Send(1000000000, Third), <<>>),
    \* swap of a token for 0.00002 SOL
    RawTx(0, "SWAP", 5000, Wallet,
          SwapRec(<<>>, <<SwapNative(20000, Null)>>,
                  <<SwapToken(USDC, 30000, "", 0)>>, <<>>),
          NoNft, <<>>, <<>>),
    \* wrapped SOL sent, valued below one cent
    RawTx(0, "TRANSFER", 0, Wallet, NoSwap, NoNft, <<>>,
          <<TokenLeg(WSOL, 20000000, Wallet, Other, "", 5)>>),
    \* USDC received; fee paid by the sender, or by the wallet
    RawTx(0, "TRANSFER", 5000, Other, NoSwap, NoNft, <<>>,
          <<TokenLeg(USDC, 20000000, Other, Wallet, "USDC", 2000)>>),
    RawTx(0, "", 5000, Wallet, NoSwap, NoNft, <<>>,
          <<TokenLeg(USDC, 20000000, Other, Wallet, "USDC", Null)>>),
    \* two native legs that cancel out
    RawTx(0, "TRANSFER", 0, Other, NoSwap, NoNft,
          Send(1000000000, Other) \o Recv(1000000000, Third), <<>>),
    \* a native leg without an amount
    RawTx(0, "TRANSFER", 0, Other, NoSwap, NoNft, Send(Null, Other), <<>>) }

WalkTimestamps == {NowSec - 3600, NowSec - 7200}

WalkEvents == {[p EXCEPT !.timestamp = t] : p \in WalkPayloads, t \in WalkTimestamps}

\* --- the inputs of the seed-point specification: events at, before and
\* after the request's Date.now()
NowPayloads ==
  { RawTx(0, "TRANSFER", 5000, Wallet, NoSwap, NoNft, Send(2000000000, Other), <<>>),
    RawTx(0, "TRANSFER", 5000, Other, NoSwap, NoNft, Recv(2000000000, Other), <<>>),
    RawTx(0, "TRANSFER", 0, Wallet, NoSwap, NoNft, Send(500, Other), <<>>) }

NowTimestamps == {NowSec - 3600, NowSec, NowSec + 60}

NowEvents == {[p EXCEPT !.timestamp = t] : p \in NowPayloads, t \in NowTimestamps}

\* --- the inputs of the walk specification: fees absent or paid by either
\* side, amounts missing in legs the walk reads and in legs it skips, several
\* payloads in one event, wrapped SOL valued below one cent
EdgePayloads ==
  { \* 2 SOL sent, no fee recorded
    RawTx(0, "TRANSFER", Null, Wallet, NoSwap, NoNft, Send(2000000000, Other), <<>>),
    \* USDC received, the fee paid by the wallet, or by the sender
    RawTx(0, "TRANSFER", 5000, Wallet, NoSwap, NoNft, <<>>,
          <<TokenLeg(USDC, 20000000, Other, Wallet, "USDC", 2000)>>),
    RawTx(0, "TRANSFER", 5000, Other, NoSwap, NoNft, <<>>,
          <<TokenLeg(USDC, 20000000, Other, Wallet, "USDC", 2000)>>),
    \* 2 SOL received, the sender pays the fee
    RawTx(0, "TRANSFER", 5000, Other, NoSwap, NoNft, Recv(2000000000, Other), <<>>),
    \* a leg sent by the wallet without an amount
    RawTx(0, "TRANSFER", 0, Other, NoSwap, NoNft, Send(Null, Other), <<>>),
    \* 2 SOL sent, and a leg between two other accounts without an amount
    RawTx(0, "TRANSFER", 0, Other, NoSwap, NoNft,
          Send(2000000000, Other) \o <<NativeLeg(Null, Other, Third)>>, <<>>),
    \* a swap of 1 SOL, the native leg that funds it and wrapped SOL received
    RawTx(0, "SWAP", 5000, Wallet,
          SwapRec(<<SwapNative(1000000000, 150000)>>, <<>>, <<>>,
                  <<SwapToken(USDC, 1500000000, "USDC", 149000)>>),
          NoNft, Send(1000000000, Third),
          <<TokenLeg(WSOL, 5000000, Other, Wallet, "SOL", 75000)>>),
    \* 0.0000005 SOL sent, no fee
    RawTx(0, "TRANSFER", 0, Wallet, NoSwap, NoNft, Send(500, Other), <<>>),
    \* wrapped SOL sent, valued at half a cent, or at nothing
    RawTx(0, "TRANSFER", 0, Wallet, NoSwap, NoNft, <<>>,
          <<TokenLeg(WSOL, 20000000, Wallet, Other, "", 5)>>),
    RawTx(0, "TRANSFER", 0, Wallet, NoSwap, NoNft, <<>>,
          <<TokenLeg(WSOL, 20000000, Wallet, Other, "", 0)>>) }

EdgeEvents == {[p EXCEPT !.timestamp = t] : p \in EdgePayloads, t \in WalkTimestamps}

Balances == {0, 10000000, 100000000}

\* the signature of an event is its position in the list the upstream returned
WithSignatures(evs) ==
  [i \in 1..Len(evs) |-> [signature |-> i] @@ evs[i]]

\* ------------------------------------------------------------------ state
\* ---------------------------------------------- DataViewport (page.tsx)
\* Chart dates are held in seconds: 31 days of milliseconds do not fit the
\* integers of the model checker, so every duration of the chart is scaled by
\* 1000 (2 h = 7200, one day = 86400).
MaxPoints == 3
MaxTicks == 1
TwoHours == 7200
DaySec == 86400
AllWindow == 30
TimeWindows == {1, 3, 5, 10, 30}

BalancePoint(date, sol, usd, has) ==
  [date |-> date, solValue |-> sol, usdValue |-> usd, tokenValue |-> 0,
   hasTransaction |-> has]

\* balanceHistory.sort((a, b) => a.date - b.date): stable, in place
ChartOlderFirst(a, b) == a.date - b.date < 0

RECURSIVE ChartInsert(_, _)
ChartInsert(p, sorted) ==
  IF Len(sorted) = 0 THEN <<p>>
  ELSE IF ChartOlderFirst(p, sorted[1]) THEN <<p>> \o sorted
  ELSE <<sorted[1]>> \o ChartInsert(p, Tail(sorted))

RECURSIVE ChartSort(_)
ChartSort(points) ==
  IF Len(points) = 0 THEN <<>>
  ELSE ChartInsert(points[Len(points)], ChartSort(SubSeq(points, 1, Len(points) - 1)))

\* mutant: a point dated exactly at the cutoff is dropped
InWindowStrict(point, w, t) ==
  IF w = AllWindow THEN TRUE ELSE point.date > t - w * DaySec

\* the predicate of the filter; t is Date.now()
InWindow(point, w, t) ==
  IF w = AllWindow THEN TRUE ELSE point.date >= t - w * DaySec

FilterWindow(points, w, t) == SelectSeq(points, LAMBDA p : InWindow(p, w, t))

\* x / 2, exact on the even values the model draws
Half(x) == x \div 2

\* mutant: a gap of exactly two hours is filled too
GapExceedsInclusive(current, next) == next.date - current.date >= TwoHours

\* if (next.date - current.date > 2 * 60 * 60 * 1000)
GapExceeds(current, next) == next.date - current.date > TwoHours

\* the interpolated point carries no tokenValue
Interpolated(current, next) ==
  [date |-> current.date + Half(next.date - current.date),
   solValue |-> Half(current.solValue + next.solValue),
   usdValue |-> Half(current.usdValue + next.usdValue),
   tokenValue |-> Null,
   hasTransaction |-> FALSE]

\* the loop over adjacent pairs, then the push of the last point
RECURSIVE FillGaps(_)
FillGaps(points) ==
  IF Len(points) <= 1 THEN points
  ELSE <<points[1]>>
       \o (IF GapExceeds(points[1], points[2])
             THEN <<Interpolated(points[1], points[2])>> ELSE <<>>)
       \o FillGaps(Tail(points))

\* mutant: a single point is returned alone
ProcessDataNoCopy(filtered, t) == FillGaps(filtered)

\* processedData; t is Date.now()
ProcessData(filtered, t) ==
  IF Len(filtered) = 0 THEN <<>>
  ELSE IF Len(filtered) = 1 THEN <<filtered[1], [filtered[1] EXCEPT !.date = t]>>
  ELSE FillGaps(filtered)

\* --- the inputs of the chart specification: ages (seconds before now) around
\* the two-hour gap and the window cutoffs, values with exact means
ChartAges == {0, 3600, 7200, 18000, DaySec, DaySec + 2, 31 * DaySec}

ChartPointAt(age) ==
  LET low == age \in {0, 18000, DaySec + 2}
  IN BalancePoint(NowSec - age,
                  IF low THEN 10000000 ELSE 30000000,
                  IF low THEN 150000 ELSE 450000,
                  age # 0)

ChartPoints == {ChartPointAt(age) : age \in ChartAges}

\* ------------------------------------------------------- Home (page.tsx)
TrackAddresses == {Wallet, Other}

FetchRequest(id, kind, address, days) ==
  [id |-> id, kind |-> kind, address |-> address, days |-> days]

\* what getWalletData resolves to for a request
WalletDataFor(r, hasTransactions, hasErrors) ==
  [address |-> r.address, days |-> r.days, hasTransactions |-> hasTransactions,
   errors |-> IF hasErrors THEN <<"data.errors">> ELSE <<>>]

\* mutant: only a wider window is fetched
WindowNeedsFetchWider(days, current) == days > current

\* if (... || days === currentTimeWindow) return
WindowNeedsFetch(days, current) == days # current

MaxFetches == 3

\* ------------------------------------------- SolanaClient (services/solana.js)
MaxClients == 2
MaxCalls == 2

\* this.currentClientIndex = (this.currentClientIndex + 1) % this.clients.length
RotateClient(index, n) == (index + 1) % n

VARIABLES
  enhancedTxs,    \* the raw events (the array calculateHistoricalBalances sorts)
  solBalance,     \* the current balance, display units
  pc,             \* "format", "walk", "done"
  fi,             \* index of the next event to format
  formattedTxs,   \* the canonical transactions kept by the route
  utilOut,        \* result of the standalone formatTransaction, once applied
  wi,             \* index of the next event of the walk
  runningBalance,
  balancePoints,
  now,            \* the latest reading of Date.now(), ms
  warnings,       \* number of "Negative balance detected" diagnostics
  lookups,        \* outcomes of the symbol lookups the last formatTransaction made
  passedHistory,  \* data.balanceHistory as the parent passed it
  balanceHistory, \* data.balanceHistory, the array DataViewport sorts
  selectedTimeWindow,
  filteredData,
  processedData,
  clock,          \* the chart's latest reading of Date.now(), seconds
  rendered,       \* DataViewport has rendered its current state
  walletData,     \* null (<<>>) or the wallet data on display
  currentTimeWindow,
  isLoading,
  isRetryingTransactions,
  error,
  transactionErrors,
  inflight,       \* getWalletData calls awaiting their response
  fetchCount,     \* getWalletData calls issued
  clients,        \* this.clients.length, the number of configured endpoints
  currentClientIndex,
  rpcCalls        \* the retryRpc calls, each at its position

pipeVars == <<enhancedTxs, solBalance, pc, fi, formattedTxs, utilOut, wi,
              runningBalance, balancePoints, now, warnings, lookups>>

chartVars == <<passedHistory, balanceHistory, selectedTimeWindow, filteredData,
               processedData, clock, rendered>>

pageVars == <<walletData, currentTimeWindow, isLoading, isRetryingTransactions,
              error, transactionErrors, inflight, fetchCount>>

rpcVars == <<clients, currentClientIndex, rpcCalls>>

vars == <<pipeVars, chartVars, pageVars, rpcVars>>

\* DataViewport before its first render, without data
ChartIdle ==
  /\ passedHistory = <<>>
  /\ balanceHistory = <<>>
  /\ selectedTimeWindow = 1
  /\ filteredData = <<>>
  /\ processedData = <<>>
  /\ clock = NowSec
  /\ rendered = FALSE

\* a retryRpc call that has not started
RpcCallIdle ==
  [pc |-> "idle", attempt |-> 0, client |-> Null, tried |-> {}, lastError |-> Null,
   result |-> Null]

\* SolanaClient after construction: the one endpoint the constructor connects
RpcIdle ==
  /\ clients = 1
  /\ currentClientIndex = 0
  /\ rpcCalls = [c \in 1..MaxCalls |-> RpcCallIdle]

\* Home after construction
PageIdle ==
  /\ walletData = <<>>
  /\ currentTimeWindow = 1
  /\ isLoading = FALSE
  /\ isRetryingTransactions = FALSE
  /\ error = ""
  /\ transactionErrors = <<>>
  /\ inflight = {}
  /\ fetchCount = 0

InitRest ==
  /\ pc = "format"
  /\ fi = 1
  /\ formattedTxs = <<>>
  /\ utilOut = <<>>
  /\ wi = 0
  /\ runningBalance = Null
  /\ balancePoints = <<>>
  /\ now = NowSec * 1000
  /\ warnings = 0
  /\ lookups = <<>>
  /\ ChartIdle
  /\ PageIdle
  /\ RpcIdle

\* GET /wallet/:address with the upstream's answer in hand
Init ==
  /\ \E evs \in SeqsUpTo(WalkEvents, MaxEvents) : enhancedTxs = WithSignatures(evs)
  /\ solBalance \in Balances
  /\ InitRest

\* the same request, with events stamped around the request time
InitNow ==
  /\ \E evs \in SeqsUpTo(NowEvents, MaxEvents) : enhancedTxs = WithSignatures(evs)
  /\ solBalance \in Balances
  /\ InitRest

\* the same request, with events at the edges of the walk's rules
InitWalk ==
  /\ \E evs \in SeqsUpTo(EdgeEvents, MaxEvents) : enhancedTxs = WithSignatures(evs)
  /\ solBalance \in Balances
  /\ InitRest

\* one event handed to the formatters
InitFormat ==
  /\ \E ev \in FmtEvents : enhancedTxs = WithSignatures(<<ev>>)
  /\ solBalance = 0
  /\ InitRest

\* for (const tx of enhancedTxs) { formatted = await formatTransaction(tx, address); ... }
FormatNext ==
  /\ pc = "format"
  /\ fi <= Len(enhancedTxs)
  /\ \E o1 \in LookupOutcomes, o2 \in LookupOutcomes :
       /\ formattedTxs' = formattedTxs \o HeliusFormatTransaction(enhancedTxs[fi], Wallet, o1, o2)
       /\ lookups' = HeliusLookups(enhancedTxs[fi], o1, o2)
  /\ fi' = fi + 1
  /\ UNCHANGED <<enhancedTxs, solBalance, pc, utilOut, wi, runningBalance,
                 balancePoints, now, warnings, chartVars, pageVars, rpcVars>>

\* the standalone formatTransaction applied to the event
UtilFormat ==
  /\ Len(utilOut) = 0
  /\ Len(enhancedTxs) > 0
  /\ utilOut' = <<UtilFormatTransaction(enhancedTxs[1], Wallet)>>
  /\ UNCHANGED <<enhancedTxs, solBalance, pc, fi, formattedTxs, wi, runningBalance,
                 balancePoints, now, warnings, lookups, chartVars, pageVars, rpcVars>>

\* calculateHistoricalBalances, up to the loop: sort in place, seed point
CalcStart ==
  /\ pc = "format"
  /\ fi > Len(enhancedTxs)
  /\ enhancedTxs' = SortTransactions(enhancedTxs)
  /\ runningBalance' = solBalance
  /\ balancePoints' = <<SeedPoint(now, solBalance)>>
  /\ wi' = 1
  /\ pc' = "walk"
  /\ UNCHANGED <<solBalance, fi, formattedTxs, utilOut, now, warnings, lookups,
                 chartVars, pageVars, rpcVars>>

\* one iteration of the loop over sortedTxs
WalkStep ==
  /\ pc = "walk"
  /\ wi <= Len(enhancedTxs)
  /\ LET tx == enhancedTxs[wi]
         d == ValueChangeSOL(tx, Wallet)
         sum == runningBalance + d
     IN IF IsMeaningful(d)
          THEN /\ runningBalance' = ClampBalance(sum)
               /\ warnings' = IF sum < 0 THEN warnings + 1 ELSE warnings
               /\ balancePoints' = Append(balancePoints, TxPoint(tx, runningBalance', d))
          ELSE UNCHANGED <<runningBalance, warnings, balancePoints>>
  /\ wi' = wi + 1
  /\ UNCHANGED <<enhancedTxs, solBalance, pc, fi, formattedTxs, utilOut, now, lookups,
                 chartVars, pageVars, rpcVars>>

\* mutant: the 24 h point is added to every series
WithFlatPointAlways(points, date, balance) == Append(points, SeedPoint(date, balance))

\* mutant: the flat line is never completed
WithFlatPointNever(points, date, balance) == points

\* the 24 h point when only the seed exists
WithFlatPoint(points, date, balance) ==
  IF Len(points) = 1 THEN Append(points, SeedPoint(date, balance)) ELSE points

\* the loop over sortedTxs as a function of the events left to walk
RECURSIVE WalkFrom(_, _, _)
WalkFrom(txs, running, w) ==
  IF Len(txs) = 0 THEN <<>>
  ELSE LET d == ValueChangeSOL(txs[1], w)
       IN IF IsMeaningful(d)
            THEN LET r == ClampBalance(running + d)
                 IN <<TxPoint(txs[1], r, d)>> \o WalkFrom(Tail(txs), r, w)
            ELSE WalkFrom(Tail(txs), running, w)

\* calculateHistoricalBalances as a function of its arguments and of the two
\* readings of Date.now()
CalculateHistoricalBalances(txs, currentBalance, w, started, finished) ==
  SortPoints(WithFlatPoint(<<SeedPoint(started, currentBalance)>>
                             \o WalkFrom(SortTransactions(txs), currentBalance, w),
                           finished - DayMs, currentBalance))

\* after the loop: the flat line, the final sort, the return
Finish ==
  /\ pc = "walk"
  /\ wi > Len(enhancedTxs)
  /\ \E tick \in {0, 1} : now' = now + tick
  /\ balancePoints' = SortPoints(WithFlatPoint(balancePoints, now' - DayMs, solBalance))
  /\ pc' = "done"
  /\ UNCHANGED <<enhancedTxs, solBalance, fi, formattedTxs, utilOut, wi,
                 runningBalance, warnings, lookups, chartVars, pageVars, rpcVars>>

Next == FormatNext \/ CalcStart \/ WalkStep \/ Finish

Spec == Init /\ [][Next]_vars

SpecNow == InitNow /\ [][Next]_vars

SpecWalk == InitWalk /\ [][Next]_vars

NextFormat == FormatNext \/ UtilFormat

SpecFormat == InitFormat /\ [][NextFormat]_vars

\* the pipeline variables where no request is being served
PipeIdle ==
  /\ enhancedTxs = <<>>
  /\ solBalance = 0
  /\ pc = "format"
  /\ fi = 1
  /\ formattedTxs = <<>>
  /\ utilOut = <<>>
  /\ wi = 0
  /\ runningBalance = Null
  /\ balancePoints = <<>>
  /\ now = NowSec * 1000
  /\ warnings = 0
  /\ lookups = <<>>

\* ---------------------------------------------------- DataViewport alone
\* the component mounted with a balance series and no onTimeWindowChange
InitChart ==
  /\ PipeIdle
  /\ PageIdle
  /\ RpcIdle
  /\ balanceHistory \in SeqsUpTo(ChartPoints, MaxPoints)
  /\ passedHistory = balanceHistory
  /\ selectedTimeWindow = 1
  /\ filteredData = <<>>
  /\ processedData = <<>>
  /\ clock = NowSec
  /\ rendered = FALSE

\* one render: the early return, or filteredData and processedData
Render ==
  /\ ~rendered
  /\ \E tick \in {0, 1} :
       /\ clock + tick <= NowSec + MaxTicks
       /\ clock' = clock + tick
  /\ IF Len(balanceHistory) = 0
       THEN UNCHANGED <<balanceHistory, filteredData, processedData>>
       ELSE /\ balanceHistory' = ChartSort(balanceHistory)
            /\ filteredData' = FilterWindow(balanceHistory', selectedTimeWindow, clock')
            /\ processedData' = ProcessData(filteredData', clock')
  /\ rendered' = TRUE
  /\ UNCHANGED <<passedHistory, selectedTimeWindow, pipeVars, pageVars, rpcVars>>

\* DataViewport.handleTimeWindowChange, from a button of the rendered chart
SelectWindow ==
  /\ rendered
  /\ Len(balanceHistory) > 0
  /\ \E days \in TimeWindows :
       /\ days # selectedTimeWindow
       /\ selectedTimeWindow' = days
  /\ rendered' = FALSE
  /\ UNCHANGED <<passedHistory, balanceHistory, filteredData, processedData, clock,
                 pipeVars, pageVars, rpcVars>>

NextChart == Render \/ SelectWindow

SpecChart == InitChart /\ [][NextChart]_vars

\* ------------------------------------------------------------- Home
InitPage == PipeIdle /\ ChartIdle /\ PageIdle /\ RpcIdle

\* getWalletData(address, days) up to its await
IssueFetch(kind, address, days) ==
  /\ fetchCount < MaxFetches
  /\ fetchCount' = fetchCount + 1
  /\ inflight' = inflight \cup {FetchRequest(fetchCount', kind, address, days)}

\* handleTrackWallet up to its await; the button is disabled while loading
\* and while the address field is empty
TrackWallet ==
  /\ ~isLoading
  /\ \E walletAddress \in TrackAddresses : IssueFetch("track", walletAddress, 1)
  /\ isLoading' = TRUE
  /\ error' = ""
  /\ walletData' = <<>>
  /\ transactionErrors' = <<>>
  /\ currentTimeWindow' = 1
  /\ UNCHANGED <<isRetryingTransactions, pipeVars, chartVars, rpcVars>>

\* a window button: DataViewport.handleTimeWindowChange, which calls
\* Home.handleTimeWindowChange up to its await. The buttons exist only while
\* the balance history built from walletData.transactions is not empty.
ChangeWindow ==
  /\ Len(walletData) = 1
  /\ walletData[1].hasTransactions
  /\ \E days \in TimeWindows :
       /\ selectedTimeWindow' = days
       /\ IF WindowNeedsFetch(days, currentTimeWindow)
            THEN /\ currentTimeWindow' = days
                 /\ isRetryingTransactions' = TRUE
                 /\ IssueFetch("window", walletData[1].address, days)
            ELSE UNCHANGED <<currentTimeWindow, isRetryingTransactions, inflight,
                             fetchCount>>
  /\ UNCHANGED <<walletData, isLoading, error, transactionErrors, pipeVars, rpcVars,
                 passedHistory, balanceHistory, filteredData, processedData, clock,
                 rendered>>

\* handleRetryTransactions up to its await; getWalletData's days defaults to 1
RetryTransactions ==
  /\ Len(walletData) = 1
  /\ isRetryingTransactions' = TRUE
  /\ transactionErrors' = <<>>
  /\ IssueFetch("retry", walletData[1].address, 1)
  /\ UNCHANGED <<walletData, currentTimeWindow, isLoading, error, pipeVars, chartVars, rpcVars>>

\* a getWalletData call resolves and its handler runs to the end
FetchResolves ==
  \E r \in inflight, hasTransactions \in BOOLEAN, hasErrors \in BOOLEAN :
    LET data == WalletDataFor(r, hasTransactions, hasErrors)
    IN /\ inflight' = inflight \ {r}
       /\ walletData' = <<data>>
       /\ transactionErrors' =
            IF Len(data.errors) > 0 THEN data.errors ELSE transactionErrors
       /\ IF r.kind = "track"
            THEN isLoading' = FALSE /\ UNCHANGED isRetryingTransactions
            ELSE isRetryingTransactions' = FALSE /\ UNCHANGED isLoading
       /\ UNCHANGED <<currentTimeWindow, error, fetchCount, pipeVars, chartVars, rpcVars>>

\* a getWalletData call throws and its handler runs to the end
FetchRejects ==
  \E r \in inflight :
    /\ inflight' = inflight \ {r}
    /\ IF r.kind = "track"
         THEN /\ error' = "Error fetching wallet data"
              /\ isLoading' = FALSE
              /\ UNCHANGED <<transactionErrors, isRetryingTransactions>>
         ELSE /\ transactionErrors' = <<"Error fetching transactions">>
              /\ isRetryingTransactions' = FALSE
              /\ UNCHANGED <<error, isLoading>>
    /\ UNCHANGED <<walletData, currentTimeWindow, fetchCount, pipeVars, chartVars, rpcVars>>

\* ------------------------------------------------------ SolanaClient
\* a client with one to MaxClients endpoints, shared by the calls
InitRpc ==
  /\ PipeIdle /\ ChartIdle /\ PageIdle
  /\ clients \in 1..MaxClients
  /\ currentClientIndex = 0
  /\ rpcCalls = [c \in 1..MaxCalls |-> RpcCallIdle]

\* retryRpc(operation) up to its first await: attempt 0 on the current client
RpcStart ==
  \E c \in 1..MaxCalls :
    /\ rpcCalls[c].pc = "idle"
    /\ rpcCalls' = [rpcCalls EXCEPT ![c] =
         [@ EXCEPT !.pc = "await", !.client = currentClientIndex,
                   !.tried = {currentClientIndex}]]
    /\ UNCHANGED <<clients, currentClientIndex, pipeVars, chartVars, pageVars>>

\* await operation(client) resolves: return result
RpcResolves ==
  \E c \in 1..MaxCalls :
    /\ rpcCalls[c].pc = "await"
    /\ rpcCalls' = [rpcCalls EXCEPT ![c] =
         [@ EXCEPT !.pc = "returned", !.result = rpcCalls[c].client]]
    /\ UNCHANGED <<clients, currentClientIndex, pipeVars, chartVars, pageVars>>

\* await operation(client) rejects: the catch block, then the next attempt up
\* to its await, or the throw after the loop
RpcRejects ==
  \E c \in 1..MaxCalls :
    /\ rpcCalls[c].pc = "await"
    /\ currentClientIndex' = RotateClient(currentClientIndex, clients)
    /\ LET call == rpcCalls[c]
           attempt == call.attempt + 1
       IN rpcCalls' = [rpcCalls EXCEPT ![c] =
            IF attempt < clients
              THEN [call EXCEPT !.attempt = attempt, !.lastError = call.client,
                                !.client = currentClientIndex',
                                !.tried = @ \cup {currentClientIndex'}]
              ELSE [call EXCEPT !.attempt = attempt, !.lastError = call.client,
                                !.pc = "thrown"]]
    /\ UNCHANGED <<clients, pipeVars, chartVars, pageVars>>

NextRpc == RpcStart \/ RpcResolves \/ RpcRejects

SpecRpc == InitRpc /\ [][NextRpc]_vars

NextPage ==
  TrackWallet \/ ChangeWindow \/ RetryTransactions \/ FetchResolves \/ FetchRejects

SpecPage == InitPage /\ [][NextPage]_vars

\* =================================================================== claims

\* the event handed to the formatters in SpecFormat
TheTx == enhancedTxs[1]
HeliusDone == fi > 1
UtilDone == Len(utilOut) = 1

HasSwap(tx) == Len(tx.swap) > 0
HasNft(tx) == Len(tx.nft) > 0
HasNative(tx) == Len(tx.nativeTransfers) > 0
HasToken(tx) == Len(tx.tokenTransfers) > 0

\* every amount the walk reads is a number
RECURSIVE AllNumeric(_)
AllNumeric(amounts) ==
  Len(amounts) = 0 \/ (IsNum(amounts[1]) /\ AllNumeric(Tail(amounts)))

WellFormed(tx) ==
  /\ AllNumeric([i \in 1..Len(tx.nativeTransfers) |-> tx.nativeTransfers[i].amount])
  /\ AllNumeric([i \in 1..Len(tx.tokenTransfers) |-> tx.tokenTransfers[i].tokenAmount])
  /\ HasSwap(tx) =>
       /\ AllNumeric([i \in 1..Len(tx.swap[1].nativeInput) |-> tx.swap[1].nativeInput[i].amount])
       /\ AllNumeric([i \in 1..Len(tx.swap[1].nativeOutput) |-> tx.swap[1].nativeOutput[i].amount])

RECURSIVE SumOver(_, _)
SumOver(f, S) ==
  IF S = {} THEN 0 ELSE LET i == CHOOSE j \in S : TRUE IN f[i] + SumOver(f, S \ {i})

\* The inverse of the event's forward effect on the observed address, in
\* display units: what it put in (swap input, legs it sent, the fee it
\* paid) minus what it got out (swap output, legs it received).
InverseEffect(tx, w) ==
  LET nat == tx.nativeTransfers
      tok == tx.tokenTransfers
      natAmt == [i \in 1..Len(nat) |-> nat[i].amount \div 100]
      tokAmt == [i \in 1..Len(tok) |-> tok[i].tokenAmount]
      wrapped == {i \in 1..Len(tok) : tok[i].mint = WSOL}
      swapIn == IF HasSwap(tx) /\ Len(tx.swap[1].nativeInput) > 0
                  THEN tx.swap[1].nativeInput[1].amount \div 100 ELSE 0
      swapOut == IF HasSwap(tx) /\ Len(tx.swap[1].nativeOutput) > 0
                   THEN tx.swap[1].nativeOutput[1].amount \div 100 ELSE 0
      feePaid == IF tx.fee # Null /\ tx.feePayer = w THEN tx.fee \div 100 ELSE 0
  IN swapIn - swapOut
     + SumOver(natAmt, {i \in 1..Len(nat) : nat[i].fromUserAccount = w})
     - SumOver(natAmt, {i \in 1..Len(nat) : nat[i].toUserAccount = w})
     + SumOver(tokAmt, {i \in wrapped : tok[i].fromUserAccount = w})
     - SumOver(tokAmt, {i \in wrapped : tok[i].toUserAccount = w})
     + feePaid

\* a step of the walk that emits a point
EmitsPoint == Len(balancePoints') = Len(balancePoints) + 1
NewPoint == balancePoints'[Len(balancePoints')]
IsWalkStep == pc = "walk" /\ wi <= Len(enhancedTxs) /\ wi' = wi + 1

\* currentBalance 10.0, one native transfer 1 hour ago: 2.0 sent, fee 0.000005 paid
C1_ExampleInput ==
  /\ solBalance = 100000000
  /\ Len(enhancedTxs) = 1
  /\ enhancedTxs[1].timestamp = NowSec - 3600
  /\ enhancedTxs[1].nativeTransfers = <<NativeLeg(2000000000, Wallet, Other)>>
  /\ enhancedTxs[1].tokenTransfers = <<>>
  /\ enhancedTxs[1].swap = NoSwap
  /\ enhancedTxs[1].fee = 5000
  /\ enhancedTxs[1].feePayer = Wallet

C1_Example ==
  (pc = "done" /\ C1_ExampleInput) =>
    /\ Len(balancePoints) = 2
    /\ balancePoints[1].date = (NowSec - 3600) * 1000
    /\ balancePoints[1].solValue = 120000050
    /\ balancePoints[2].date = NowSec * 1000
    /\ balancePoints[2].solValue = 100000000

C1_Step ==
  (IsWalkStep /\ WellFormed(enhancedTxs[wi]) /\ EmitsPoint) =>
    LET d == InverseEffect(enhancedTxs[wi], Wallet)
    IN /\ NewPoint.valueChange = d
       /\ \/ NewPoint.solValue = runningBalance + d
          \/ runningBalance + d < 0 /\ NewPoint.solValue = 0

\* C1: the delta of each event is the inverse of its forward effect (+ swap
\* native input, - swap native output, + every native or wrapped-native leg
\* the observed address sent, - every such leg it received, + the fee it
\* paid) and the point emitted for the event holds the running balance plus
\* that delta (0 where the sum is negative); with currentBalance 10.0 and one
\* transfer of 2.0 sent 1 hour ago with fee 0.000005 the series is exactly
\* {1h ago, 12.000005}, {now, 10.0}.
C1_InverseDelta == []C1_Example /\ [][C1_Step]_vars

C1_Witness == pc = "done" /\ C1_ExampleInput /\ Len(balancePoints) = 2

\* C2: every point of the returned series has solValue >= 0, whatever the
\* events, for every non-negative currentBalance.
C2_NonNegative ==
  \A i \in 1..Len(balancePoints) : balancePoints[i].solValue >= 0

C2_Witness ==
  /\ pc = "done"
  /\ warnings > 0
  /\ \E i \in 1..Len(balancePoints) :
       /\ balancePoints[i].hasTransaction
       /\ balancePoints[i].solValue = 0
       /\ balancePoints[i].valueChange < 0

\* C3: the returned series is sorted ascending by date, for every order of
\* the input events, events sharing a timestamp included.
C3_SortedAscending ==
  pc = "done" =>
    \A i \in 1..(Len(balancePoints) - 1) :
      balancePoints[i].date <= balancePoints[i + 1].date

\* the input listed the older event first; both events produced a point
C3_Witness ==
  /\ pc = "done"
  /\ Len(enhancedTxs) = 2
  /\ enhancedTxs[1].signature = 2
  /\ Len(balancePoints) = 3
  /\ balancePoints[1].date < balancePoints[2].date

C5_NativeOverToken ==
  (HeliusDone /\ ~HasSwap(TheTx) /\ ~HasNft(TheTx) /\ HasNative(TheTx) /\ HasToken(TheTx)) =>
    /\ \A i \in 1..Len(formattedTxs) : formattedTxs[i].type = "SOL_TRANSFER"
    /\ Len(formattedTxs) = 0 <=> TheTx.nativeTransfers[1].amount < 10000

\* C6: an event with both a swap and an NFT sub-record normalizes as SWAP
\* (direction swap), and an event whose only payload is an NFT sub-record
\* normalizes as an NFT transaction rather than being dropped.
C6_SwapOverNft ==
  /\ (HasSwap(TheTx) /\ HasNft(TheTx)) =>
       /\ HeliusDone => Len(formattedTxs) = 1 /\ formattedTxs[1].type = "SWAP"
       /\ UtilDone => Len(utilOut[1]) = 1 /\ utilOut[1][1].type = "SWAP"
  /\ (HasNft(TheTx) /\ ~HasSwap(TheTx) /\ ~HasNative(TheTx) /\ ~HasToken(TheTx)) =>
       /\ HeliusDone => Len(formattedTxs) = 1 /\ formattedTxs[1].type = "NFT_TRANSACTION"
       /\ UtilDone => Len(utilOut[1]) = 1 /\ utilOut[1][1].type = "NFT_TRANSACTION"

\* an event whose only payload is its native transfers
NativeOnly(tx) == HasNative(tx) /\ ~HasSwap(tx) /\ ~HasNft(tx) /\ ~HasToken(tx)

\* C7: a native-transfer event normalizes to absent when its leg-0 amount is
\* below 0.00001 (10,000 lamports) and to a transaction carrying that amount
\* otherwise, whatever the fee and the later legs are.
C7_NativeDust ==
  (HeliusDone /\ NativeOnly(TheTx)) =>
    IF TheTx.nativeTransfers[1].amount < 10000
      THEN formattedTxs = <<>>
      ELSE /\ Len(formattedTxs) = 1
           /\ formattedTxs[1].type = "SOL_TRANSFER"
           /\ formattedTxs[1].amount * 100 = TheTx.nativeTransfers[1].amount

\* leg 0 is dust, a later leg and the fee are not
C7_Witness ==
  /\ HeliusDone /\ NativeOnly(TheTx)
  /\ Len(TheTx.nativeTransfers) = 2
  /\ TheTx.nativeTransfers[1].amount = 5000
  /\ TheTx.nativeTransfers[2].amount = 2000000000
  /\ TheTx.fee = 5000
  /\ formattedTxs = <<>>

\* C8: a token-transfer event normalizes to absent exactly when a USD
\* valuation is available on leg 0 and is below 0.01 (an available valuation
\* of 0 included); otherwise it normalizes to a TOKEN_TRANSFER transaction.
C8_TokenDust ==
  (HeliusDone /\ HasToken(TheTx) /\ ~HasSwap(TheTx) /\ ~HasNft(TheTx) /\ ~HasNative(TheTx)) =>
    LET usd == TheTx.tokenTransfers[1].valueUsd
    IN IF usd # Null /\ usd < 10
         THEN formattedTxs = <<>>
         ELSE Len(formattedTxs) = 1 /\ formattedTxs[1].type = "TOKEN_TRANSFER"

\* a single native leg to or from the observed address with magnitude in
\* [0.000001, 0.00001) and no fee paid by the observed address
C9_Between(tx) ==
  /\ ~HasSwap(tx) /\ ~HasToken(tx)
  /\ Len(tx.nativeTransfers) = 1
  /\ LET leg == tx.nativeTransfers[1]
     IN /\ IsNum(leg.amount)
        /\ 1000 <= leg.amount /\ leg.amount < 10000
        /\ (leg.fromUserAccount = Wallet) # (leg.toUserAccount = Wallet)
  /\ ~(tx.fee > 0 /\ tx.feePayer = Wallet)

C9_AbsentFromList ==
  pc # "format" =>
    \A i \in 1..Len(enhancedTxs) :
      C9_Between(enhancedTxs[i]) =>
        \A k \in 1..Len(formattedTxs) :
          formattedTxs[k].signature # enhancedTxs[i].signature

C9_Step ==
  (IsWalkStep /\ C9_Between(enhancedTxs[wi])) =>
    LET leg == enhancedTxs[wi].nativeTransfers[1]
        m == leg.amount \div 100
        d == IF leg.fromUserAccount = Wallet THEN m ELSE -m
    IN /\ EmitsPoint
       /\ NewPoint.hasTransaction
       /\ NewPoint.date = enhancedTxs[wi].timestamp * 1000
       /\ NewPoint.valueChange = d
       /\ runningBalance' = (IF runningBalance + d < 0 THEN 0 ELSE runningBalance + d)
       /\ NewPoint.solValue = runningBalance'

\* C9: the two dust thresholds are independent: a native transfer of
\* magnitude m, 1e-6 <= m < 1e-5, involving the observed address (which pays
\* no fee) is absent from the canonical list, yet the walk emits a
\* hasTransaction point for it and moves the running balance by m (down to 0
\* at most).
C9_IndependentThresholds == []C9_AbsentFromList /\ [][C9_Step]_vars

C9_Witness ==
  /\ pc = "done"
  /\ Len(enhancedTxs) = 1
  /\ C9_Between(enhancedTxs[1])
  /\ formattedTxs = <<>>
  /\ Len(balancePoints) = 2
  /\ balancePoints[1].hasTransaction
  /\ balancePoints[1].valueChange = 50
  /\ balancePoints[1].solValue = solBalance + 50

\* C10: when no event produces a meaningful change (an empty event list in
\* particular) the series is exactly two points holding currentBalance, with
\* valueChange 0 and hasTransaction false: one 24 hours before now, then one
\* dated now.
C10_FlatSeries ==
  (/\ pc = "done"
   /\ \/ Len(enhancedTxs) = 0
      \/ \A i \in 1..Len(balancePoints) : ~balancePoints[i].hasTransaction) =>
    /\ Len(balancePoints) = 2
    /\ balancePoints[1] = SeedPoint(now - DayMs, solBalance)
    /\ balancePoints[2] = SeedPoint(NowSec * 1000, solBalance)

\* two events, neither of them meaningful
C10_Witness ==
  /\ pc = "done"
  /\ Len(enhancedTxs) = 2
  /\ Len(balancePoints) = 2
  /\ ~balancePoints[1].hasTransaction
  /\ solBalance > 0

\* the date of the seed point: Date.now() when the walk starts
SeedDate == NowSec * 1000
LastPoint == balancePoints[Len(balancePoints)]

\* C11 as stated: provided no event is timestamped later than now, the last
\* point of the returned series is the seed point (dated now, holding
\* currentBalance, hasTransaction false).
C11_SeedLast_Original ==
  (/\ pc = "done"
   /\ \A i \in 1..Len(enhancedTxs) : enhancedTxs[i].timestamp * 1000 <= SeedDate) =>
    LastPoint = SeedPoint(SeedDate, solBalance)

\* C11 (amended): provided every event is timestamped strictly earlier than
\* now, the last point of the returned series is the seed point, dated now,
\* holding currentBalance, with hasTransaction false; and whatever the events,
\* the seed point stays in the series with that value.
C11_SeedLast ==
  /\ (/\ pc = "done"
      /\ \A i \in 1..Len(enhancedTxs) : enhancedTxs[i].timestamp * 1000 < SeedDate) =>
       LastPoint = SeedPoint(SeedDate, solBalance)
  /\ pc \in {"walk", "done"} =>
       \E i \in 1..Len(balancePoints) : balancePoints[i] = SeedPoint(SeedDate, solBalance)

\* two events before now, both with a point, the seed after them
C11_Witness ==
  /\ pc = "done"
  /\ Len(enhancedTxs) = 2
  /\ \A i \in 1..2 : enhancedTxs[i].timestamp * 1000 < SeedDate
  /\ Len(balancePoints) = 3
  /\ balancePoints[1].hasTransaction /\ balancePoints[2].hasTransaction
  /\ balancePoints[2].solValue # solBalance
  /\ LastPoint = SeedPoint(SeedDate, solBalance)

\* ------------------------------------------------------ claims on the chart
\* DataViewport has rendered a non-empty series with the selected window
ChartShown == rendered /\ Len(passedHistory) > 0

CountIn(points, p) == Cardinality({i \in 1..Len(points) : points[i] = p})

Ascending(points) ==
  \A i, j \in 1..Len(points) : i < j => points[i].date <= points[j].date

\* the filtered series read from the state
Gap(i) == filteredData[i + 1].date - filteredData[i].date

\* number of adjacent pairs before point i that are more than two hours apart
InsertedBefore(i) == Cardinality({j \in 1..(i - 1) : Gap(j) > TwoHours})

\* C12: for a selected window w in {1,3,5,10} the filtered series holds exactly
\* the input points dated at or after now - w days, in ascending date order;
\* for the all sentinel (30) every input point is kept, however old.
C12_WindowFilter ==
  ChartShown =>
    /\ Ascending(filteredData)
    /\ \A p \in ChartPoints :
         CountIn(filteredData, p) =
           IF selectedTimeWindow = AllWindow
                \/ p.date >= clock - selectedTimeWindow * DaySec
             THEN CountIn(passedHistory, p) ELSE 0

\* an unsorted input with a point exactly at the one-day cutoff (kept) and an
\* older one (dropped)
C12_Witness ==
  /\ ChartShown
  /\ selectedTimeWindow = 1
  /\ ~Ascending(passedHistory)
  /\ \E i \in 1..Len(passedHistory) : passedHistory[i].date < clock - DaySec
  /\ \E k \in 1..Len(filteredData) : filteredData[k].date = clock - DaySec
  /\ Len(filteredData) = 2

\* C13: when exactly one point survives the filter the prepared series is that
\* point followed by a copy of it dated now (same solValue and usdValue); when
\* no point survives the prepared series is empty.
C13_SinglePoint ==
  ChartShown =>
    /\ Len(filteredData) = 1 =>
         /\ Len(processedData) = 2
         /\ processedData[1] = filteredData[1]
         /\ processedData[2] = [filteredData[1] EXCEPT !.date = clock]
         /\ processedData[2].solValue = processedData[1].solValue
         /\ processedData[2].usdValue = processedData[1].usdValue
    /\ Len(filteredData) = 0 => processedData = <<>>

\* three points passed, one inside the window, drawn as a flat line up to now
C13_Witness ==
  /\ ChartShown
  /\ Len(passedHistory) = 3
  /\ Len(filteredData) = 1
  /\ Len(processedData) = 2
  /\ processedData[1].date < clock
  /\ processedData[2].date = clock

\* C14: for a filtered series of two or more points, every filtered point is
\* kept in order and between an adjacent pair exactly one point is inserted iff
\* their dates are strictly more than two hours apart; its date is the midpoint,
\* its solValue and usdValue are the means, its hasTransaction is false.
C14_Interpolation ==
  (ChartShown /\ Len(filteredData) >= 2) =>
    /\ Len(processedData) = Len(filteredData) + InsertedBefore(Len(filteredData))
    /\ \A i \in 1..Len(filteredData) :
         processedData[i + InsertedBefore(i)] = filteredData[i]
    /\ \A i \in 1..(Len(filteredData) - 1) :
         Gap(i) > TwoHours =>
           LET m == processedData[i + InsertedBefore(i) + 1]
           IN /\ 2 * m.date = filteredData[i].date + filteredData[i + 1].date
              /\ 2 * m.solValue = filteredData[i].solValue + filteredData[i + 1].solValue
              /\ 2 * m.usdValue = filteredData[i].usdValue + filteredData[i + 1].usdValue
              /\ m.hasTransaction = FALSE

\* a pair three hours apart (one midpoint) followed by a pair exactly two hours
\* apart (none)
C14_Witness ==
  /\ ChartShown
  /\ Len(filteredData) = 3
  /\ Gap(1) = 3 * 3600
  /\ Gap(2) = TwoHours
  /\ Len(processedData) = 4
  /\ ~processedData[2].hasTransaction
  /\ processedData[2].solValue # filteredData[1].solValue

\* -------------------------------------------------- claims on the formatters
NoPayload(tx) == ~HasSwap(tx) /\ ~HasNft(tx) /\ ~HasNative(tx) /\ ~HasToken(tx)

IsMinimal(r) ==
  /\ r.direction = "unknown"
  /\ r.description = EmptyDesc
  /\ r.amount = Null /\ r.from = NoAddr /\ r.to = NoAddr
  /\ r.input = <<>> /\ r.output = <<>>

NativeFirstOnly(tx) == [tx EXCEPT !.nativeTransfers = <<tx.nativeTransfers[1]>>]

LegDirection(leg, w) ==
  IF leg.fromUserAccount = w THEN "out"
  ELSE IF leg.toUserAccount = w THEN "in" ELSE "unknown"

FromLegZero(r, tx) ==
  /\ r.direction = LegDirection(tx.nativeTransfers[1], Wallet)
  /\ r.amount * 100 = tx.nativeTransfers[1].amount
  /\ r.from = tx.nativeTransfers[1].fromUserAccount
  /\ r.to = tx.nativeTransfers[1].toUserAccount

\* C16: for an event formatted as a native transfer, direction is out if leg
\* 0's sender is the observed address, else in if its receiver is, else
\* unknown; amount is leg 0's magnitude; legs 1..n change nothing.
C16_LegZero ==
  /\ (HeliusDone /\ HeliusCategory(TheTx) = "native") =>
       /\ Len(formattedTxs) = 1 => FromLegZero(formattedTxs[1], TheTx)
       /\ formattedTxs = HeliusFormatTransaction(NativeFirstOnly(TheTx), Wallet, "found", "found")
  /\ (UtilDone /\ UtilCategory(TheTx) = "native") =>
       /\ Len(utilOut[1]) = 1 /\ FromLegZero(utilOut[1][1], TheTx)
       /\ utilOut[1] = UtilFormatTransaction(NativeFirstOnly(TheTx), Wallet)

\* leg 0 received by the observed address, leg 1 sent by it with another amount
C16_Witness ==
  /\ HeliusDone /\ UtilDone
  /\ HeliusCategory(TheTx) = "native" /\ UtilCategory(TheTx) = "native"
  /\ Len(TheTx.nativeTransfers) = 2
  /\ TheTx.nativeTransfers[1].toUserAccount = Wallet
  /\ TheTx.nativeTransfers[2].fromUserAccount = Wallet
  /\ TheTx.nativeTransfers[2].amount # TheTx.nativeTransfers[1].amount
  /\ Len(formattedTxs) = 1
  /\ formattedTxs[1].direction = "in"
  /\ utilOut[1][1].direction = "in"

\* the USD valuation the event carries for one side of its swap
SwapSideUsd(native, tokens) ==
  IF Len(native) > 0 THEN native[1].usdValue
  ELSE IF Len(tokens) > 0 THEN tokens[1].usdValue ELSE Null

\* C17: for a swap event value_change_usd is output USD value minus input USD
\* value whenever both valuations are known, a known 0 included, and absent
\* whenever at least one is not known.
C17_UsdChange ==
  (HeliusDone /\ HeliusCategory(TheTx) = "swap") =>
    LET sw == TheTx.swap[1]
        usdIn == SwapSideUsd(sw.nativeInput, sw.tokenInputs)
        usdOut == SwapSideUsd(sw.nativeOutput, sw.tokenOutputs)
    IN /\ Len(formattedTxs) = 1
       /\ formattedTxs[1].value_change_usd =
            IF IsNum(usdIn) /\ IsNum(usdOut) THEN usdOut - usdIn ELSE Null

Failed(outcome) == outcome \in {"none", "error"}

InputLooked(sw) ==
  Len(sw.nativeInput) = 0 /\ Len(sw.tokenInputs) > 0 /\ sw.tokenInputs[1].symbol = ""

OutputLooked(sw) ==
  Len(sw.nativeOutput) = 0 /\ Len(sw.tokenOutputs) > 0 /\ sw.tokenOutputs[1].symbol = ""

\* C18 as stated: for a swap or token-transfer event whose leg has no symbol,
\* a failed or empty symbol lookup still yields a canonical transaction, not
\* absent.
C18_LookupDegrades_Original ==
  (/\ HeliusDone
   /\ HeliusCategory(TheTx) \in {"swap", "token"}
   /\ \E i \in 1..Len(lookups) : Failed(lookups[i])) =>
    Len(formattedTxs) = 1

\* C18 (amended): a failed or empty symbol lookup never changes whether
\* formatTransaction returns a record: a swap is always returned, a token
\* transfer is absent exactly when its USD valuation is present, non-zero and
\* below 0.01; in the returned record the symbol of the leg whose lookup failed
\* is the identifier-derived fallback.
C18_LookupDegrades ==
  HeliusDone =>
    /\ (HeliusCategory(TheTx) = "token" /\ lookups # <<>> /\ Failed(lookups[1])) =>
         LET t == TheTx.tokenTransfers[1]
         IN /\ formattedTxs = <<>> <=>
                 (IsNum(t.valueUsd) /\ t.valueUsd # 0 /\ t.valueUsd < UsdDust)
            /\ Len(formattedTxs) = 1 =>
                 formattedTxs[1].token_symbol = MintPrefix(t.mint)
    /\ HeliusCategory(TheTx) = "swap" =>
         LET sw == TheTx.swap[1]
         IN /\ Len(formattedTxs) = 1
            /\ (InputLooked(sw) /\ Failed(lookups[1])) =>
                 formattedTxs[1].input[1].token = MintPrefix(sw.tokenInputs[1].mint)
            /\ (OutputLooked(sw) /\ Failed(lookups[Len(lookups)])) =>
                 formattedTxs[1].output[1].token = MintPrefix(sw.tokenOutputs[1].mint)

\* a token transfer without symbol whose lookup raised
C18_Witness ==
  /\ HeliusDone
  /\ HeliusCategory(TheTx) = "token"
  /\ lookups = <<"error">>
  /\ Len(formattedTxs) = 1
  /\ formattedTxs[1].token_symbol = MintPrefix(TheTx.tokenTransfers[1].mint)
  /\ formattedTxs[1].type = "TOKEN_TRANSFER"

\* ------------------------------------------------------ claims on the page
NewFetches == inflight' \ inflight

\* C19 as stated: a window change to a tighter window issues no fetch; a fetch
\* is issued only when the requested window is wider than the one the data on
\* display was fetched for.
C19_FetchOnlyWider_Original ==
  [][\A r \in NewFetches :
       r.kind = "window" => (Len(walletData) = 1 /\ r.days > walletData[1].days)]_vars

\* C19 (amended): a window button pressed while wallet data is displayed
\* issues one new fetch for the pressed window whenever it differs from
\* currentTimeWindow, tighter or wider, and none when it equals it; the press
\* itself leaves the wallet data in place.
C19_FetchOnChange ==
  [][/\ \A r \in NewFetches :
          r.kind = "window" =>
            /\ r.days # currentTimeWindow
            /\ r.days = currentTimeWindow' /\ r.days = selectedTimeWindow'
            /\ Len(walletData) = 1 /\ r.address = walletData[1].address
            /\ walletData' = walletData
            /\ isRetryingTransactions'
     /\ selectedTimeWindow' # selectedTimeWindow =>
          /\ walletData' = walletData
          /\ IF selectedTimeWindow' # currentTimeWindow
               THEN \E r \in NewFetches : r.kind = "window" /\ r.days = selectedTimeWindow'
               ELSE NewFetches = {} /\ currentTimeWindow' = currentTimeWindow]_vars

\* a fetch for a window tighter than the displayed data's is in flight
C19_Witness ==
  /\ Len(walletData) = 1
  /\ \E r \in inflight :
       /\ r.kind = "window"
       /\ r.days < walletData[1].days
       /\ r.days = currentTimeWindow
  /\ isRetryingTransactions

\* C20: after calculateHistoricalBalances returns, the caller's raw event
\* sequence holds the same events in the same order as before the call, and
\* the chart preparer leaves the balance series passed to it unchanged.
C20_InputsUnchanged ==
  /\ \A i \in 1..Len(enhancedTxs) : enhancedTxs[i].signature = i
  /\ balanceHistory = passedHistory

\* ------------------------------------------------- claims on SolanaClient
AllEndpoints == 0..(clients - 1)

ReadNumeric(tx, w) ==
  /\ HasSwap(tx) =>
       /\ \A i \in 1..Len(tx.swap[1].nativeInput) : IsNum(tx.swap[1].nativeInput[i].amount)
       /\ \A i \in 1..Len(tx.swap[1].nativeOutput) : IsNum(tx.swap[1].nativeOutput[i].amount)
  /\ \A i \in 1..Len(tx.nativeTransfers) :
       LET leg == tx.nativeTransfers[i]
       IN (leg.fromUserAccount = w \/ leg.toUserAccount = w) => IsNum(leg.amount)
  /\ \A i \in 1..Len(tx.tokenTransfers) :
       LET leg == tx.tokenTransfers[i]
       IN (leg.mint = WSOL /\ (leg.fromUserAccount = w \/ leg.toUserAccount = w)) =>
            IsNum(leg.tokenAmount)

Magnitude(x) == IF x < 0 THEN -x ELSE x

\* the fee's share of the delta, as the claim words it
FeeShare(tx) ==
  IF tx.fee # Null /\ tx.feePayer = Wallet THEN tx.fee \div 100 ELSE 0

C22_Step ==
  (IsWalkStep /\ ReadNumeric(enhancedTxs[wi], Wallet)) =>
    LET tx == enhancedTxs[wi]
        d == InverseEffect([tx EXCEPT !.fee = Null], Wallet) + FeeShare(tx)
    IN /\ EmitsPoint <=> Magnitude(d) >= MeaningfulChange
       /\ EmitsPoint => NewPoint.valueChange = d

\* C22: the event's fee, in display units, is added to the event's delta iff
\* the fee is present and the fee payer is the observed address; a fee paid by
\* another account, or a null fee, adds nothing.
C22_FeeShare == [][C22_Step]_vars

\* the same token receipt twice: the fee paid by the wallet gives a point of
\* 0.000005, the fee paid by the sender gives none
C22_Witness ==
  /\ pc = "done"
  /\ Len(enhancedTxs) = 2
  /\ \A i \in 1..2 : ~HasNative(enhancedTxs[i]) /\ ~HasSwap(enhancedTxs[i])
  /\ \E i, j \in 1..2 :
       /\ enhancedTxs[i].fee = 5000 /\ enhancedTxs[i].feePayer = Wallet
       /\ enhancedTxs[j].fee = 5000 /\ enhancedTxs[j].feePayer = Other
  /\ Len(balancePoints) = 2
  /\ balancePoints[1].hasTransaction
  /\ balancePoints[1].valueChange = 50

\* the events in the order the caller passed them
OriginalTxs ==
  [i \in 1..Len(enhancedTxs) |->
     CHOOSE tx \in {enhancedTxs[k] : k \in 1..Len(enhancedTxs)} : tx.signature = i]

\* the series calculateHistoricalBalances returns for the events that
\* satisfy Keep, everything else as in the request
SeriesOf(Keep(_)) ==
  CalculateHistoricalBalances(SelectSeq(OriginalTxs, Keep), solBalance, Wallet,
                              SeedDate, now)

BelowThreshold(tx) ==
  ReadNumeric(tx, Wallet) /\ Magnitude(InverseEffect(tx, Wallet)) < MeaningfulChange

AtLeastThreshold(tx) ==
  ReadNumeric(tx, Wallet) /\ Magnitude(InverseEffect(tx, Wallet)) >= MeaningfulChange

NotBelowThreshold(tx) == ~BelowThreshold(tx)

PointsKept == SubSeq(balancePoints', 1, Len(balancePoints)) = balancePoints

C23_Removal == pc = "done" => balancePoints = SeriesOf(NotBelowThreshold)

C23_Step ==
  IsWalkStep =>
    /\ BelowThreshold(enhancedTxs[wi]) =>
         balancePoints' = balancePoints /\ runningBalance' = runningBalance
    /\ AtLeastThreshold(enhancedTxs[wi]) =>
         /\ EmitsPoint /\ PointsKept
         /\ NewPoint.date = enhancedTxs[wi].timestamp * 1000
         /\ NewPoint.hasTransaction

\* C23: an event with |delta| < 1e-6 emits no point and leaves the running
\* balance unchanged, so the series is the one returned when the event is
\* removed from the input; an event with |delta| >= 1e-6 emits exactly one
\* point dated timestamp*1000 with hasTransaction true.
C23_Threshold == []C23_Removal /\ [][C23_Step]_vars

\* an event below the threshold walked before one above it
C23_Witness ==
  /\ pc = "done"
  /\ Len(enhancedTxs) = 2
  /\ BelowThreshold(enhancedTxs[1]) /\ HasNative(enhancedTxs[1])
  /\ AtLeastThreshold(enhancedTxs[2])
  /\ Len(balancePoints) = 2
  /\ balancePoints[1].hasTransaction
  /\ balancePoints[1].date = enhancedTxs[2].timestamp * 1000

C24_Step ==
  (IsWalkStep /\ AtLeastThreshold(enhancedTxs[wi])) =>
    LET sum == runningBalance + InverseEffect(enhancedTxs[wi], Wallet)
    IN /\ EmitsPoint /\ pc' = "walk"
       /\ NewPoint.solValue = runningBalance'
       /\ IF sum < 0
            THEN runningBalance' = 0 /\ warnings' = warnings + 1
            ELSE runningBalance' = sum /\ warnings' = warnings

\* C24: when running balance + delta is negative the running balance becomes
\* exactly 0, one diagnostic is recorded for that event, the emitted point has
\* solValue 0, and the walk goes on to the next older event from 0.
C24_ClampStep == [][C24_Step]_vars

\* the newer event clamped to 0, the older one computed from 0
C24_Witness ==
  /\ pc = "done"
  /\ warnings = 1
  /\ Len(balancePoints) = 3
  /\ balancePoints[2].hasTransaction
  /\ balancePoints[2].solValue = 0 /\ balancePoints[2].valueChange < 0
  /\ balancePoints[1].hasTransaction
  /\ balancePoints[1].date < balancePoints[2].date
  /\ balancePoints[1].valueChange > 0
  /\ balancePoints[1].solValue = balancePoints[1].valueChange

Readable(tx) == ReadNumeric(tx, Wallet)

\* C25 as stated: an event whose amount fields are missing or non-numeric
\* produces no balance point and leaves the running balance unchanged.
C25_MalformedSkipped_Original ==
  [][(IsWalkStep /\ ~WellFormed(enhancedTxs[wi])) =>
       (balancePoints' = balancePoints /\ runningBalance' = runningBalance)]_vars

C25_Removal == pc = "done" => balancePoints = SeriesOf(Readable)

C25_Step ==
  (IsWalkStep /\ ~ReadNumeric(enhancedTxs[wi], Wallet)) =>
    (balancePoints' = balancePoints /\ runningBalance' = runningBalance /\ pc' = "walk")

\* C25 (amended): an event in which an amount the walk reads (the native side
\* of a swap, or a native or wrapped-native leg the observed address is part
\* of) is missing or non-numeric produces no point and leaves the running
\* balance unchanged, the walk goes on, and the series is the one returned
\* without that event.
C25_MalformedSkipped == []C25_Removal /\ [][C25_Step]_vars

\* a leg without amount sent by the wallet, walked before a well-formed event
C25_Witness ==
  /\ pc = "done"
  /\ Len(enhancedTxs) = 2
  /\ ~ReadNumeric(enhancedTxs[1], Wallet)
  /\ AtLeastThreshold(enhancedTxs[2])
  /\ Len(balancePoints) = 2
  /\ balancePoints[1].hasTransaction
  /\ balancePoints[1].solValue = solBalance + balancePoints[1].valueChange

\* a token-transfer event whose leg is a wrapped-native transfer involving the
\* observed address, amount >= 0.000001, valuation available and below 0.01
C26_DustWrapped(tx) ==
  /\ ~HasSwap(tx) /\ ~HasNft(tx) /\ ~HasNative(tx)
  /\ Len(tx.tokenTransfers) = 1
  /\ LET leg == tx.tokenTransfers[1]
     IN /\ leg.mint = WSOL
        /\ (leg.fromUserAccount = Wallet) # (leg.toUserAccount = Wallet)
        /\ IsNum(leg.tokenAmount) /\ leg.tokenAmount >= MeaningfulChange
        /\ leg.valueUsd # Null /\ leg.valueUsd # NaN /\ leg.valueUsd < UsdDust

Listed(tx) ==
  \E k \in 1..Len(formattedTxs) : formattedTxs[k].signature = tx.signature

Charted(tx) ==
  \E k \in 1..Len(balancePoints) :
    /\ balancePoints[k].hasTransaction
    /\ balancePoints[k].date = tx.timestamp * 1000
    /\ Magnitude(balancePoints[k].valueChange) >= tx.tokenTransfers[1].tokenAmount

\* C26: a wrapped-native token transfer of the observed address with amount
\* >= 0.000001 and an available valuation below 0.01 is absent from the
\* transaction list and still has its hasTransaction point in the series.
C26_ListChartGap ==
  pc = "done" =>
    \A i \in 1..Len(enhancedTxs) :
      C26_DustWrapped(enhancedTxs[i]) =>
        ~Listed(enhancedTxs[i]) /\ Charted(enhancedTxs[i])

\* the half of the claim the code keeps: such an event always has its point
C26_Charted ==
  pc = "done" =>
    \A i \in 1..Len(enhancedTxs) :
      C26_DustWrapped(enhancedTxs[i]) => Charted(enhancedTxs[i])

\* the case the claim describes does occur: valued at half a cent, the event
\* is charted and not listed
C26_GapReached ==
  /\ pc = "done"
  /\ \E i \in 1..Len(enhancedTxs) :
       /\ C26_DustWrapped(enhancedTxs[i])
       /\ enhancedTxs[i].tokenTransfers[1].valueUsd = 5
       /\ ~Listed(enhancedTxs[i]) /\ Charted(enhancedTxs[i])

\* ------------------------------------------------ claims on the chart, II
\* the positions of the prepared series that hold the filtered points
InputPosition(i) == IF Len(filteredData) = 1 THEN 1 ELSE i + InsertedBefore(i)

InputPositions == {InputPosition(i) : i \in 1..Len(filteredData)}

\* the in-window points in the order the caller passed them
InWindowPassed ==
  SelectSeq(passedHistory, LAMBDA p : InWindow(p, selectedTimeWindow, clock))

\* every point the preparer adds has hasTransaction = false
C27_AddedUnmarked ==
  ChartShown =>
    \A k \in 1..Len(processedData) :
      k \notin InputPositions => processedData[k].hasTransaction = FALSE

C28_SelfConsistent ==
  pc = "done" =>
    \A i \in 1..(Len(balancePoints) - 1) :
      LET p == balancePoints[i]
          q == balancePoints[i + 1]
      IN p.hasTransaction => p.solValue = ClampBalance(q.solValue + p.valueChange)

\* the same statement for requests whose events have distinct timestamps
C28_DistinctTimes ==
  (pc = "done"
     /\ \A i, j \in 1..Len(enhancedTxs) :
          i # j => enhancedTxs[i].timestamp # enhancedTxs[j].timestamp) =>
    \A i \in 1..(Len(balancePoints) - 1) :
      LET p == balancePoints[i]
          q == balancePoints[i + 1]
      IN p.hasTransaction => p.solValue = ClampBalance(q.solValue + p.valueChange)

\* the events whose delta reaches the threshold
MeaningfulEvents == {i \in 1..Len(enhancedTxs) : AtLeastThreshold(enhancedTxs[i])}

TransactionPoints == {j \in 1..Len(balancePoints) : balancePoints[j].hasTransaction}

\* C29: the returned series has 1 + k points when k >= 1 events have
\* |delta| >= 0.000001 (k hasTransaction points, one per such event, and the
\* seed) and 2 points when k = 0; no event yields more than one point.
C29_OnePointEach ==
  pc = "done" =>
    LET k == Cardinality(MeaningfulEvents)
    IN /\ Len(balancePoints) = IF k >= 1 THEN 1 + k ELSE 2
       /\ Cardinality(TransactionPoints) = k
       /\ \A t \in WalkTimestamps :
            Cardinality({j \in TransactionPoints : balancePoints[j].date = t * 1000})
              = Cardinality({i \in MeaningfulEvents : enhancedTxs[i].timestamp = t})

\* an event with swap, native and wrapped-native payloads next to an event
\* below the threshold: one point for the first, none for the second
C29_Witness ==
  /\ pc = "done"
  /\ Len(enhancedTxs) = 2
  /\ \E i \in 1..2 :
       /\ HasSwap(enhancedTxs[i]) /\ HasNative(enhancedTxs[i]) /\ HasToken(enhancedTxs[i])
       /\ MeaningfulEvents = {i}
  /\ Len(balancePoints) = 2
  /\ Cardinality(TransactionPoints) = 1

\* ------------------------------------------------- claims on the page, II
\* with no fetch in flight, the wallet data on display answers a request made
\* for the selected window
C30_DataForWindow ==
  (inflight = {} /\ Len(walletData) = 1) => walletData[1].days = currentTimeWindow

\* a response never replaces the data by the answer to an older selection
C30_NoStaleOverwrite ==
  [][\A r \in inflight \ inflight' :
       (walletData' # walletData /\ r.kind = "window") => r.days = currentTimeWindow]_vars

\* the retry flag covers every window or retry fetch in flight
C30_RetryFlag ==
  (\E r \in inflight : r.kind \in {"window", "retry"}) => isRetryingTransactions

\* C30: whenever no fetch is in flight and wallet data is displayed, the data
\* is the response to a request for currentTimeWindow, whatever the order in
\* which track, window and retry fetches completed; and isRetryingTransactions
\* is true while a window or retry fetch is in flight.
C30_WindowConsistent == C30_DataForWindow /\ C30_RetryFlag

\* every fetch has settled without failure and the data on display answers
\* a window that is no longer the selected one
C30_StaleDisplayed ==
  /\ inflight = {}
  /\ Len(walletData) = 1
  /\ transactionErrors = <<>> /\ error = ""
  /\ walletData[1].days = 3
  /\ currentTimeWindow = 1

====
